---- MODULE Spec2Model ----
(***************************************************************************)
(* Model of the smart-shutdown coordinator (class Shutdown, onceFactory,   *)
(* addShutdownHandler, wait) in its two source variants:                   *)
(*   "v1" = src/src/shutdown.js     (no development check, 2000 ms waits)  *)
(*   "v2" = src/unnamed/part_002    (development check, 1000 ms waits)     *)
(* One step of the model is one macrotask of the Node.js event loop: the   *)
(* delivery of a signal, the firing of a timer, the settling of a handler's*)
(* promise, each followed by the microtasks it enables.  Time is in ms and *)
(* advances only when no timer is due.                                     *)
(***************************************************************************)
EXTENDS Integers, Sequences, FiniteSets, TLC

VARIABLES variant, api, health, registry, coords, now, proc, sigCount

vars == <<variant, api, health, registry, coords, now, proc, sigCount>>

\* ---------------------------------------------------------------- bounds
MaxCoord == 2
MaxHandlers == 2
MaxSignals == 2
MaxElapse == 3000
MaxJobs == 2

\* ------------------------------------------------------ program constants
DefaultTimeout == 30000

PostWaitV1 == 2000

PostWaitV2 == 1000

GraceV1 == 2000

GraceV2 == 1000

\* ------------------------------------------------------------ input sets
Variants == {"v1", "v2"}
Signals == {"SIGTERM", "SIGINT"}
TimeoutCfg == {0, 1000}
HandlerDurs == {0, 500, 2500}
FinallyVals == {"default", "throws"}
Quantum == {500}

Names == {"", "db"}
ForceExitVals == {"unset", "true", "false"}

\* the handlers with a name from ns ("": no name given)
HandlersNamed(ns) ==
    [kind : {"ok"}, dur : HandlerDurs, err : {"none"}, name : ns]
    \cup [kind : {"reject"}, dur : {500}, err : {"Error", "nomsg"}, name : ns]
    \cup [kind : {"throw"}, dur : {0}, err : {"Error", "nomsg"}, name : ns]
    \cup [kind : {"never"}, dur : {0}, err : {"none"}, name : ns]

Handlers == HandlersNamed({""})

\* devSet: config.development is given; forceExit is varied with a server
\* here, and without one in ForceExitConfigs
Configs ==
    [timeout : TimeoutCfg, development : BOOLEAN, devSet : {TRUE},
     finally : FinallyVals, server : {FALSE}, forceExit : {"unset"}]
    \cup [timeout : {0}, development : {FALSE}, devSet : {TRUE},
          finally : {"default"}, server : {TRUE}, forceExit : ForceExitVals]

\* the apiConfig of ShutdownHelper: {} has no apiUrl and no development
NoApi == [apiUrl |-> FALSE, development |-> FALSE]

ApiConfigs == [apiUrl : BOOLEAN, development : BOOLEAN]

NoHealth == [state |-> "none", jobs |-> 0, posts |-> 0]

\* no timer, no time
None == 0 - 1

\* ------------------------------------------------------------- helpers
PostWait(v) == IF v = "v1" THEN PostWaitV1 ELSE PostWaitV2

Grace(v) == IF v = "v1" THEN GraceV1 ELSE GraceV2

\* config.timeout || 30000
TimeoutOf(cfg) == IF cfg.timeout = 0 THEN DefaultTimeout ELSE cfg.timeout

\* wait(time): the deadline of the timer it sets
WaitMutant(t, time) == t

Wait(t, time) == t + time

\* const handlerName = name || "Anonymous" (v1 prints no name)
NameOf(h) == IF h.name = "" THEN "Anonymous" ELSE h.name

\* something the coordinator does, in the order it is done
Event(c, e) == [c EXCEPT !.events = Append(@, e)]

Logged(c, level, msg, h) ==
    [c EXCEPT !.log = Append(@, [level |-> level, msg |-> msg, h |-> h,
                                 name |-> IF h = 0 \/ variant = "v1"
                                          THEN "none"
                                          ELSE NameOf(registry[h])]),
              !.events = Append(@, msg)]

\* this.development
DevelopmentOf(cfg, a, v) ==
    IF v = "v1" THEN cfg.devSet /\ cfg.development
    ELSE IF cfg.devSet THEN cfg.development
    ELSE a.development

\* the else branch of if (config.server): the coordinator listens itself
OwnListenerMutant(server) == TRUE

OwnListener(server) == ~server

\* config.forceExit !== undefined ? config.forceExit : true
ForceExitOfMutant(v) == TRUE

ForceExitOf(v) == IF v = "unset" THEN TRUE ELSE v = "true"

\* the options of the call gracefulShutdown(config.server, {...})
AdapterOptions(cfg, dev) ==
    [signals |-> {"SIGINT", "SIGTERM"},
     timeout |-> TimeoutOf(cfg),
     development |-> dev,
     forceExit |-> ForceExitOf(cfg.forceExit),
     onShutdown |-> "shutdownFunction",
     finally |-> "finally"]

\* new Shutdown(config): the fields of the instance after construction
NewShutdown(cfg, v) ==
    LET dev == DevelopmentOf(cfg, api, v)
        c0 == [development |-> dev,
               cfgDev |-> IF ~cfg.devSet THEN "unset"
                          ELSE IF cfg.development THEN "true" ELSE "false",
               cfgForceExit |-> cfg.forceExit,
               timeout |-> TimeoutOf(cfg),
               finally |-> cfg.finally,
               server |-> cfg.server,
               adapter |-> cfg.server,
               gs |-> IF cfg.server THEN <<AdapterOptions(cfg, dev)>>
                      ELSE <<>>,
               listener |-> OwnListener(cfg.server),
               events |-> <<>>,
               report |-> "none",
               reports |-> 0,
               lenAtStart |-> None,
               called |-> FALSE,
               signal |-> "none",
               cb |-> "idle",
               timeoutAt |-> None, postWaitAt |-> None, graceAt |-> None,
               sf |-> "none",
               drain |-> "none",
               idx |-> 0,
               awaiting |-> 0,
               inflight |-> {},
               invoked |-> <<>>,
               settled |-> <<>>,
               log |-> <<>>,
               started |-> 0,
               drains |-> 0,
               finalCalls |-> 0,
               sigAt |-> None, finalAt |-> None, drainEndAt |-> None,
               drainLen |-> None,
               raceBy |-> "none",
               timerDone |-> FALSE,
               inflightAtFinal |-> {},
               drainAtFinal |-> "none",
               drainAtTimer |-> "none",
               awaitingAtTimer |-> 0,
               maxInflight |-> 0]
    IN IF v = "v2" /\ dev
       THEN Logged(c0, "info", "dev-init", 0)
       ELSE Logged(c0, "info", "init", 0)

\* ------------------------------------------------ executeHandlerFunctions
\* a handler whose promise settles in the microtask that follows its call
InlineAsync(h) == h.kind \in {"ok", "reject"} /\ h.dur = 0

\* the time at which a handler called now settles (None: never)
DueOf(h) == IF h.kind = "never" THEN None ELSE now + h.dur

\* `error.message` can be read: false for a thrown null or undefined
HasMessage(err) == err = "Error"

\* the loop position after a caught failure: the for-of loop goes on
AfterCatchMutant(next, n) == n + 1

AfterCatch(next, n) == next

\* `await handler()`: the loop is suspended until the handler settles
AwaitedMutant(i) == FALSE

Awaited(i) == TRUE

\* catch (error) { this.log('error', `... ${error.message}`) }
Catch(c, i) ==
    IF HasMessage(registry[i].err)
    THEN [Logged(c, "error", "handler-error", i)
            EXCEPT !.idx = AfterCatch(@, Len(registry))]
    ELSE [c EXCEPT !.drain = "threw"]

\* the promise of handler i settles
Settle(c, i) ==
    LET h == registry[i]
        c1 == [c EXCEPT !.inflight = {p \in @ : p[1] # i},
                        !.settled = Append(@, i)]
    IN IF c.awaiting # i THEN c1
       ELSE LET c2 == [c1 EXCEPT !.awaiting = 0]
            IN IF h.kind = "ok"
               THEN IF variant = "v2"
                    THEN Logged(c2, "info", "handler-ok", i)
                    ELSE c2
               ELSE Catch(c2, i)

\* handler(): the call of handler i
Invoke(c, i) ==
    LET h == registry[i]
        c1 == [Event(c, "call") EXCEPT !.invoked = Append(@, i),
                                       !.idx = i + 1]
    IN IF h.kind = "throw"
       THEN Catch([c1 EXCEPT !.settled = Append(@, i)], i)
       ELSE LET fl == c1.inflight \cup {<<i, DueOf(h)>>}
            IN [c1 EXCEPT !.inflight = fl,
                          !.awaiting = IF Awaited(i) THEN i ELSE 0,
                          !.maxInflight =
                              IF Cardinality(fl) > @ THEN Cardinality(fl) ELSE @]

\* the end of the array as the for-of iterator sees it: the array as it is
\* now, not as it was when the loop began
IterLenMutant(c) == c.lenAtStart

IterLen(c) == Len(registry)

\* the loser of Promise.race is stopped: never, it is only awaited no more
CancelledMutant(c) == c.cb # "race"

Cancelled(c) == FALSE

\* for (const handler of globalErrorHandlerFn) { try { await handler() } ... }
\* run from the current position until the loop suspends, ends or throws;
\* micro: the microtasks run too (the promises that settle at once)
RECURSIVE Loop(_, _)
Loop(c, micro) ==
    IF c.drain # "running" \/ Cancelled(c) THEN c
    ELSE IF c.awaiting # 0
    THEN IF micro /\ InlineAsync(registry[c.awaiting])
         THEN Loop(Settle(c, c.awaiting), micro)
         ELSE c
    ELSE IF c.idx > IterLen(c)
    THEN [c EXCEPT !.drain = "true", !.drainEndAt = now,
                   !.drainLen = Len(registry)]
    ELSE Loop(Invoke(c, c.idx), micro)

\* ---------------------------------------------------- signal callback
\* Promise.race([wait(timeout), shutdownFunction(signal)]) is fulfilled
RaceResolvedMutant(timerDone, sfDone) == timerDone /\ sfDone

RaceResolved(timerDone, sfDone) == timerDone \/ sfDone

\* this.finally(); await wait(grace)
AfterRace(c) ==
    LET c1 == [Event(c, "finally") EXCEPT !.finalCalls = @ + 1, !.finalAt = now,
                        !.inflightAtFinal = c.inflight,
                        !.drainAtFinal = c.drain,
                        !.raceBy = IF c.sf = "resolved" THEN "shutdown"
                                   ELSE "timer"]
    IN IF c.finally = "throws"
       THEN [c1 EXCEPT !.cb = "rejected"]
       ELSE [Logged(c1, "info", "final", 0)
               EXCEPT !.cb = "grace",
                      !.graceAt = Wait(now, Grace(variant))]

\* the promise of shutdownFunction is fulfilled: after its last statement,
\* the log of 'All shutdown handlers executed successfully.'
SfDoneMutant(c) == c.sf \in {"wait", "resolved"}

SfDone(c) == c.sf = "resolved"

\* the continuation of the signal callback after `await Promise.race(...)`
RaceStep(c) ==
    IF c.cb # "race" THEN c
    ELSE IF c.sf = "rejected" /\ ~c.timerDone
    THEN [c EXCEPT !.cb = "rejected", !.raceBy = "rejected"]
    ELSE IF RaceResolved(c.timerDone, SfDone(c))
    THEN AfterRace(c)
    ELSE c

\* the microtasks of one coordinator, run until none is left
Micro(c) ==
    LET c1 == Loop(c, TRUE)
        c2 == IF c1.sf = "drain" /\ c1.drain = "true"
              THEN [c1 EXCEPT !.sf = "wait",
                              !.postWaitAt = Wait(now, PostWait(variant))]
              ELSE IF c1.sf = "drain" /\ c1.drain = "threw"
              THEN [c1 EXCEPT !.sf = "rejected"]
              ELSE c1
    IN RaceStep(c2)

\* if (this.apiConfig?.apiUrl && this.apiConfig?.development == false)
ReportDueMutant(a) == a.apiUrl

ReportDue(a) == a.apiUrl /\ ~a.development

\* shutdownFunction(signal), up to its first suspension
ShutdownFunction(c) ==
    LET c1 == IF variant = "v2" /\ ReportDue(api)
              THEN [c EXCEPT !.report = "pending", !.reports = @ + 1]
              ELSE c
    IN Loop([Logged(c1, "info", "received", 0)
               EXCEPT !.sf = "drain", !.drain = "running", !.drains = @ + 1,
                      !.idx = 1, !.awaiting = 0,
                      !.lenAtStart = Len(registry)],
            FALSE)

\* async signal => { ... }: the synchronous part of the callback
Callback(c, sig) ==
    LET c1 == [c EXCEPT !.started = @ + 1, !.signal = sig, !.sigAt = now]
    IN IF variant = "v2" /\ c.development
       THEN [Event(c1, "exit") EXCEPT !.cb = "exit"]
       ELSE ShutdownFunction(
                [c1 EXCEPT !.cb = "race", !.timerDone = FALSE,
                           !.timeoutAt = Wait(now, c.timeout)])

\* if (!called) of callOnce
CallOnceGuardMutant(called) == TRUE

CallOnceGuard(called) == ~called

\* callOnce(...args)
CallOnce(c, sig) ==
    IF c.listener /\ CallOnceGuard(c.called)
    THEN Callback([c EXCEPT !.called = TRUE], sig)
    ELSE c

\* process.emit(signal): the listeners run in the order they were added;
\* a listener that calls process.exit() ends the process at once
RECURSIVE Emit(_, _, _)
Emit(cs, k, sig) ==
    IF k > Len(cs) THEN cs
    ELSE LET c1 == CallOnce(cs[k], sig)
         IN IF c1.cb = "exit" /\ cs[k].cb # "exit"
            THEN [cs EXCEPT ![k] = c1]
            ELSE Emit([cs EXCEPT ![k] = c1], k + 1, sig)

Exits(old, new) ==
    \E k \in DOMAIN new : new[k].cb = "exit" /\ old[k].cb # "exit"

\* a promise of a signal callback was rejected with nobody to handle it
Unhandled(old, new) ==
    \E k \in DOMAIN new : new[k].cb = "rejected" /\ old[k].cb # "rejected"

\* the states of the process after a macrotask; an unhandled rejection
\* ends the process or is only warned about, as the runtime decides
ProcAfter(old, new) ==
    IF Exits(old, new) THEN {"exited"}
    ELSE IF Unhandled(old, new) THEN {"crashed", "running"}
    ELSE {"running"}

\* ------------------------------------------------------------- timers
Deadlines ==
    UNION {({coords[k].timeoutAt, coords[k].postWaitAt, coords[k].graceAt}
              \cup {p[2] : p \in coords[k].inflight}) \ {None}
           : k \in DOMAIN coords}

MinOf(S) == CHOOSE m \in S : \A x \in S : m <= x

\* ------------------------------------------------------------- actions
InitWith(apis) ==
    /\ variant \in Variants
    /\ api \in apis
    /\ health = NoHealth
    /\ registry = <<>>
    /\ coords = <<>>
    /\ now = 0
    /\ proc = "running"
    /\ sigCount = 0

\* new ShutdownHelper() with apiConfig = {}
Init == InitWith({NoApi})

\* ShutdownHelper.shutdown(config)
Construct(cfg, n) ==
    /\ proc = "running"
    /\ Len(coords) < n
    /\ coords' = Append(coords, NewShutdown(cfg, variant))
    /\ UNCHANGED <<variant, api, health, registry, now, proc, sigCount>>

\* globalErrorHandlerFn.push({ handler, name })
PushMutant(reg, h) == <<h>> \o reg

Push(reg, h) == Append(reg, h)

\* addShutdownHandler(handler, name)
Register(h) ==
    /\ proc = "running"
    /\ Len(registry) < MaxHandlers
    /\ registry' = Push(registry, h)
    /\ UNCHANGED <<variant, api, health, coords, now, proc, sigCount>>

\* some listener is installed for the signals, by a coordinator or by the
\* server adapter; without one the signal ends the process
Listening == \E k \in DOMAIN coords : coords[k].listener \/ coords[k].adapter

\* the process receives SIGTERM or SIGINT
Signal(sig) ==
    /\ proc = "running"
    /\ sigCount < MaxSignals
    /\ LET cs1 == Emit(coords, 1, sig)
           cs2 == IF Exits(coords, cs1) THEN cs1
                  ELSE [k \in DOMAIN cs1 |-> Micro(cs1[k])]
       IN /\ coords' = cs2
          /\ proc' \in IF Listening THEN ProcAfter(coords, cs2)
                        ELSE {"killed"}
    /\ sigCount' = sigCount + 1
    /\ UNCHANGED <<variant, api, health, registry, now>>

\* the promise of a handler called by coordinator k settles
HandlerSettles(k, i) ==
    /\ proc = "running"
    /\ k \in DOMAIN coords
    /\ <<i, now>> \in coords[k].inflight
    /\ LET cs == [coords EXCEPT ![k] = Micro(Settle(@, i))]
       IN coords' = cs /\ proc' \in ProcAfter(coords, cs)
    /\ UNCHANGED <<variant, api, health, registry, now, sigCount>>

\* the timer of wait(this.timeout) fires
TimeoutFires(k) ==
    /\ proc = "running"
    /\ k \in DOMAIN coords
    /\ coords[k].timeoutAt = now
    /\ LET cs == [coords EXCEPT ![k] =
                     Micro([@ EXCEPT !.timeoutAt = None, !.timerDone = TRUE,
                                     !.drainAtTimer = coords[k].drain,
                                     !.awaitingAtTimer = coords[k].awaiting])]
       IN coords' = cs /\ proc' \in ProcAfter(coords, cs)
    /\ UNCHANGED <<variant, api, health, registry, now, sigCount>>

\* the timer of the wait after executeHandlerFunctions fires
PostWaitFires(k) ==
    /\ proc = "running"
    /\ k \in DOMAIN coords
    /\ coords[k].postWaitAt = now
    /\ LET cs == [coords EXCEPT ![k] =
                     Micro(Logged([@ EXCEPT !.postWaitAt = None,
                                            !.sf = "resolved"],
                                  "info", "all-executed", 0))]
       IN coords' = cs /\ proc' \in ProcAfter(coords, cs)
    /\ UNCHANGED <<variant, api, health, registry, now, sigCount>>

\* the timer of the wait after this.finally() fires: process.exit()
GraceFires(k) ==
    /\ proc = "running"
    /\ k \in DOMAIN coords
    /\ coords[k].graceAt = now
    /\ coords' = [coords EXCEPT ![k] = [Event(@, "exit") EXCEPT
                                           !.graceAt = None, !.cb = "exit"]]
    /\ proc' = "exited"
    /\ UNCHANGED <<variant, api, health, registry, now, sigCount>>

\* time passes up to the next timer
Jump ==
    /\ proc = "running"
    /\ Deadlines # {}
    /\ MinOf(Deadlines) > now
    /\ now' = MinOf(Deadlines)
    /\ UNCHANGED <<variant, api, health, registry, coords, proc, sigCount>>

\* time passes while no timer is pending; the clock starts at the first
\* signal
Elapse ==
    /\ proc = "running"
    /\ sigCount > 0
    /\ Deadlines = {}
    /\ \E q \in Quantum :
          /\ now + q <= MaxElapse
          /\ now' = now + q
    /\ UNCHANGED <<variant, api, health, registry, coords, proc, sigCount>>

\* the steps of a process with n coordinators at most, configured from
\* cfgs, and handlers from hs
Step(n, cfgs, hs) ==
    \/ \E cfg \in cfgs : Construct(cfg, n)
    \/ \E h \in hs : Register(h)
    \/ \E sig \in Signals : Signal(sig)
    \/ \E k \in 1..n : \E i \in 1..MaxHandlers : HandlerSettles(k, i)
    \/ \E k \in 1..n : TimeoutFires(k)
    \/ \E k \in 1..n : PostWaitFires(k)
    \/ \E k \in 1..n : GraceFires(k)
    \/ Jump
    \/ Elapse

\* one coordinator, as ShutdownHelper.shutdown() is meant to be used
Next == Step(1, Configs, Handlers)

Spec == Init /\ [][Next]_vars

\* several coordinators in one process
MultiConfigs ==
    {cfg \in Configs :
        cfg.finally = "default" /\ ~cfg.server /\ cfg.timeout = 1000}

MultiHandlers ==
    {h \in Handlers :
        \/ h.kind = "ok" /\ h.dur = 500
        \/ h.kind = "throw" /\ h.err = "nomsg"
        \/ h.kind = "never"}

NextMulti == Step(MaxCoord, MultiConfigs, MultiHandlers)

SpecMulti == Init /\ [][NextMulti]_vars

\* .then(() => log('info', ...)).catch(err => log('error', ...)): without
\* the catch a failed report would reject with nobody to handle it
ReportSettledMutant(c, ok) ==
    IF ok
    THEN Logged([c EXCEPT !.report = "ok"], "info", "reported", 0)
    ELSE [c EXCEPT !.report = "failed", !.cb = "rejected"]

ReportSettled(c, ok) ==
    IF ok
    THEN Logged([c EXCEPT !.report = "ok"], "info", "reported", 0)
    ELSE Logged([c EXCEPT !.report = "failed"], "error", "report-failed", 0)

\* the promise of reportError(signal) settles
ReportSettles(k, ok) ==
    /\ proc = "running"
    /\ k \in DOMAIN coords
    /\ coords[k].report = "pending"
    /\ LET cs == [coords EXCEPT ![k] = Micro(ReportSettled(@, ok))]
       IN coords' = cs /\ proc' \in ProcAfter(coords, cs)
    /\ UNCHANGED <<variant, api, health, registry, now, sigCount>>

\* reportHealth: if (apiConfig?.apiUrl && apiConfig?.development == false)
HealthReportDue(a) == a.apiUrl /\ ~a.development

\* ShutdownHelper.healthCheck(config): dev is config.development
\* ("unset", "true" or "false")
HealthCheck(dev) ==
    /\ proc = "running"
    /\ health.state = "none"
    /\ LET development == IF dev = "unset" THEN api.development
                          ELSE dev = "true"
       IN health' = [health EXCEPT !.state = IF development THEN "dev"
                                             ELSE "scheduled"]
    /\ UNCHANGED <<variant, api, registry, coords, now, proc, sigCount>>

\* the job scheduled by healthCheck runs: reportHealth(apiConfig)
HealthJob ==
    /\ proc = "running"
    /\ health.state = "scheduled"
    /\ health.jobs < MaxJobs
    /\ health' = [health EXCEPT !.jobs = @ + 1,
                                !.posts = IF HealthReportDue(api) THEN @ + 1
                                          ELSE @]
    /\ UNCHANGED <<variant, api, registry, coords, now, proc, sigCount>>

\* a helper made with an API configuration: the shutdown report and the
\* health check
ApiShutdownConfigs ==
    [timeout : {1000}, development : {FALSE}, devSet : {FALSE},
     finally : {"default"}, server : {FALSE}, forceExit : {"unset"}]
    \cup [timeout : {1000}, development : BOOLEAN, devSet : {TRUE},
          finally : {"default"}, server : {FALSE}, forceExit : {"unset"}]

ApiHandlers ==
    {h \in Handlers :
        \/ h.kind = "ok" /\ h.dur = 500
        \/ h.kind = "throw" /\ h.err = "nomsg"}

InitApi == InitWith(ApiConfigs)

NextApi ==
    \/ Step(1, ApiShutdownConfigs, ApiHandlers)
    \/ \E k \in 1..1 : \E ok \in BOOLEAN : ReportSettles(k, ok)
    \/ \E dev \in {"unset", "true", "false"} : HealthCheck(dev)
    \/ HealthJob

SpecApi == InitApi /\ [][NextApi]_vars

\* handlers registered with and without a name
NamedConfigs ==
    {cfg \in Configs :
        /\ cfg.timeout = 1000 /\ ~cfg.development /\ ~cfg.server
        /\ cfg.finally = "default" /\ cfg.forceExit = "unset"}

NamedHandlers ==
    {h \in HandlersNamed(Names) :
        \/ h.kind = "ok" /\ h.dur = 500
        \/ h.kind = "throw"
        \/ h.kind = "never" /\ h.name = ""}

NextNamed == Step(1, NamedConfigs, NamedHandlers)

SpecNamed == Init /\ [][NextNamed]_vars

\* config.forceExit given as true, as false or not at all, with a server and
\* without
ForceExitConfigs ==
    [timeout : {1000}, development : {FALSE}, devSet : {TRUE},
     finally : {"default"}, server : BOOLEAN, forceExit : ForceExitVals]

NextForceExit == Step(1, ForceExitConfigs, MultiHandlers)

SpecForceExit == Init /\ [][NextForceExit]_vars

\* the event loop runs every timer that is due, and time goes on
FairSpec ==
    /\ Spec
    /\ WF_vars(Jump)
    /\ \A k \in 1..1 :
          /\ WF_vars(TimeoutFires(k))
          /\ WF_vars(PostWaitFires(k))
          /\ WF_vars(GraceFires(k))
          /\ \A i \in 1..MaxHandlers : WF_vars(HandlerSettles(k, i))

TypeOK == proc \in {"running", "exited", "crashed", "killed"}

\* ------------------------------------------------------------- claims
Range(f) == {f[x] : x \in DOMAIN f}

\* a coordinator without server whose signal callback has run its
\* non-development branch
Sequenced(c) == c.started > 0 /\ ~c.server /\ ~c.development

\* C1: in the no-server path with development off, once the first signal is
\* received the process eventually ends, whatever the registered handlers
\* do (stated for the default finalizer, and with any end of the process
\* counted as its exit).
C1_EventuallyExits ==
    \A k \in 1..1 :
        (k \in DOMAIN coords /\ Sequenced(coords[k])
            /\ coords[k].finally = "default")
        ~> (proc # "running")

\* C2: for a coordinator without server, only the first signal of either kind
\* runs the shutdown callback; every later signal leaves the coordinator and
\* the process as they are, so one sequence is started, the handlers are
\* drained once and the finalizer is called once at most.
C2_FirstSignalWins ==
    [][\A k \in DOMAIN coords :
          /\ (sigCount' # sigCount /\ coords[k].called)
                => (coords'[k] = coords[k] /\ proc' = proc)
          /\ coords'[k].started <= 1
          /\ coords'[k].drains <= 1
          /\ coords'[k].finalCalls <= 1]_vars

C2_Witness ==
    /\ sigCount >= 2
    /\ Len(coords) = 1
    /\ coords[1].started = 1
    /\ coords[1].cb = "grace"
    /\ coords[1].finalCalls = 1

\* C3: whatever the number of coordinators and signals, the shared registry
\* is drained at most once and the finalizer phase is entered at most once in
\* the life of the process.
C3_OneSequencePerProcess ==
    /\ Cardinality({k \in DOMAIN coords : coords[k].drains > 0}) <= 1
    /\ Cardinality({k \in DOMAIN coords : coords[k].finalCalls > 0}) <= 1

\* C4: a drain that runs to completion (executeHandlerFunctions returns true)
\* has called every registered handler exactly once, in registration order,
\* whichever of them failed.
C4_DrainAll ==
    \A k \in DOMAIN coords :
        coords[k].drain = "true"
            => coords[k].invoked = [i \in 1..coords[k].drainLen |-> i]

C4_Witness ==
    \E k \in DOMAIN coords :
        /\ coords[k].drain = "true"
        /\ coords[k].drainLen = 2
        /\ registry[1].kind \in {"throw", "reject"}
        /\ coords[k].invoked = <<1, 2>>

\* C5: within a shutdown sequence at most one handler is in flight, and a
\* handler is called only when every handler called before it has settled.
C5_Sequential ==
    \A k \in DOMAIN coords :
        /\ Cardinality(coords[k].inflight) <= 1
        /\ coords[k].maxInflight <= 1
        /\ \A j \in 1..(Len(coords[k].invoked) - 1) :
              coords[k].invoked[j] \in Range(coords[k].settled)

C5_Witness ==
    \E k \in DOMAIN coords :
        /\ coords[k].invoked = <<1, 2>>
        /\ registry[1].dur > 0
        /\ coords[k].settled = <<1>>
        /\ coords[k].inflight # {}

\* C6: a handler failure, thrown or rejected, with an Error or with a value
\* without message, is caught in the drain loop: the drain never fails.
C6_FailureCaught ==
    \A k \in DOMAIN coords : coords[k].drain # "threw"

\* C7: when the handlers complete at H < T after the signal, the finalizer is
\* called only after the last handler has settled: a finalizer called while
\* the drain is not complete is called at T or later, and that drain does
\* not complete before T.
C7_FinalizerAfterHandlers ==
    \A k \in DOMAIN coords :
        LET c == coords[k]
        IN (c.finalCalls > 0 /\ c.drainAtFinal # "true")
              => /\ c.finalAt - c.sigAt >= c.timeout
                 /\ c.drainEndAt # None => c.drainEndAt - c.sigAt >= c.timeout

C7_Witness ==
    \E k \in DOMAIN coords :
        LET c == coords[k]
        IN /\ c.finalCalls = 1
           /\ c.drainAtFinal = "true"
           /\ c.invoked = <<1, 2>>
           /\ c.drainEndAt > c.sigAt
           /\ c.drainEndAt - c.sigAt < c.timeout
           /\ c.finalAt >= c.drainEndAt

\* C8: when the drain is still running as the timeout timer fires, the
\* finalizer is called in that very step, at the timeout after the signal,
\* while the pending handler is still in flight.
C8_TimeoutForcesFinalizer ==
    \A k \in DOMAIN coords :
        LET c == coords[k]
        IN (c.timerDone /\ c.drainAtTimer = "running")
              => /\ c.finalCalls = 1
                 /\ c.raceBy = "timer"
                 /\ c.finalAt = c.sigAt + c.timeout
                 /\ c.finalAt <= c.sigAt + c.timeout + Grace(variant)
                 /\ c.awaitingAtTimer \in {p[1] : p \in c.inflightAtFinal}

C8_Witness ==
    \E k \in DOMAIN coords :
        LET c == coords[k]
        IN /\ c.timerDone
           /\ c.drainAtTimer = "running"
           /\ registry[c.awaitingAtTimer].kind = "never"
           /\ c.finalCalls = 1
           /\ c.cb = "grace"

\* C9: in development mode without server, a signal calls no handler and no
\* finalizer, and the process exits in the step that delivers the signal.
C9_DevelopmentSkips ==
    \A k \in DOMAIN coords :
        LET c == coords[k]
        IN (c.development /\ ~c.server /\ c.started > 0)
              => /\ c.invoked = <<>>
                 /\ c.finalCalls = 0
                 /\ c.timeoutAt = None
                 /\ proc = "exited"
                 /\ now = c.sigAt

\* C10: with development off and no server the process has exited by the
\* timeout plus the grace delay after the first signal, whatever the handlers
\* do (stated for the default finalizer).
C10_ExitWithinBound ==
    \A k \in DOMAIN coords :
        LET c == coords[k]
        IN (Sequenced(c) /\ c.finally = "default" /\ proc # "exited")
              => now <= c.sigAt + c.timeout + Grace(variant)

\* C11: a finalizer that throws does not end the signal callback: once the
\* finalizer has been called, the callback is waiting for the grace delay or
\* has reached process.exit(), and its promise is not rejected.
C11_FinalizerFailureAbsorbed ==
    \A k \in DOMAIN coords :
        LET c == coords[k]
        IN (c.finalCalls > 0 /\ c.finally = "throws")
              => /\ c.cb \in {"grace", "exit"}
                 /\ c.graceAt # None \/ proc = "exited"

\* what a sequence does apart from the outcome of its report
ReportLine(msg) == msg \in {"reported", "report-failed"}

Forget(c) ==
    [c EXCEPT !.report = "none",
              !.log = SelectSeq(@, LAMBDA l : ~ReportLine(l.msg)),
              !.events = SelectSeq(@, LAMBDA e : ~ReportLine(e))]

\* C12: the shutdown report is fire-and-forget.  The step in which the report
\* settles changes nothing of the sequence but the report itself and one log
\* line (error level exactly when the report failed), and no other step of
\* the coordinator depends on the report: the signal callback, the settling
\* of a handler and the continuations do the same whether the report is
\* pending, has succeeded or has failed.
C12_ReportFireAndForget ==
    [][\A k \in DOMAIN coords :
          LET c == coords[k]
              d == coords'[k]
          IN /\ d.report # c.report /\ c.report = "pending"
                   => /\ Forget(d) = Forget(c)
                      /\ proc' = proc /\ now' = now /\ registry' = registry
                      /\ Len(d.log) = Len(c.log) + 1
                      /\ d.log[Len(d.log)].level =
                            (IF d.report = "failed" THEN "error" ELSE "info")
             /\ Forget(Micro(c)) = Forget(Micro(Forget(c)))
             /\ \A sig \in Signals :
                   Forget(Micro(CallOnce(c, sig)))
                      = Forget(Micro(CallOnce(Forget(c), sig)))
             /\ \A p \in c.inflight :
                   Forget(Micro(Settle(c, p[1])))
                      = Forget(Micro(Settle(Forget(c), p[1])))]_vars

C12_Witness ==
    \E k \in DOMAIN coords :
        LET c == coords[k]
        IN /\ c.report = "failed"
           /\ \E j \in DOMAIN c.log :
                 c.log[j].level = "error" /\ c.log[j].msg = "report-failed"
           /\ c.invoked = <<1, 2>>
           /\ c.finalCalls = 1
           /\ c.cb = "exit"
           /\ proc = "exited"

\* the place of the first e in the events of c (0: none)
Pos(c, e) ==
    IF \E j \in DOMAIN c.events : c.events[j] = e
    THEN MinOf({j \in DOMAIN c.events : c.events[j] = e})
    ELSE 0

\* signal received -> handler calls and their logs -> all handlers executed
\* -> finalizer -> exit, as far as the sequence has come
InOrder(c) ==
    /\ Pos(c, "finally") > 0
          => /\ Pos(c, "all-executed") > 0
             /\ Pos(c, "all-executed") < Pos(c, "finally")
    /\ Pos(c, "exit") > 0
          => /\ Pos(c, "finally") > 0
             /\ Pos(c, "finally") < Pos(c, "exit")
    /\ Pos(c, "all-executed") > 0
          => /\ Pos(c, "received") > 0
             /\ Pos(c, "received") < Pos(c, "all-executed")
             /\ \A j \in DOMAIN c.events :
                   c.events[j] \in {"call", "handler-ok", "handler-error"}
                      => /\ Pos(c, "received") < j
                         /\ j < Pos(c, "all-executed")

\* C13 as stated: whenever the drain has completed less than the timeout
\* after the signal, the log of 'All shutdown handlers executed successfully.'
\* comes before the call of the finalizer, and the finalizer before the exit.
C13_LogOrderOriginal ==
    \A k \in DOMAIN coords :
        LET c == coords[k]
        IN (c.drain = "true" /\ c.drainEndAt - c.sigAt < c.timeout)
              => InOrder(c)

\* C13, amended: the order signal received -> handler logs -> all handlers
\* executed -> finalizer -> exit holds whenever the drain and the wait that
\* follows it are over before the timeout: the drain has completed at H after
\* the signal with H + the post-handler delay < T.
C13_LogOrder ==
    \A k \in DOMAIN coords :
        LET c == coords[k]
        IN (/\ c.drain = "true"
            /\ c.drainEndAt - c.sigAt + PostWait(variant) < c.timeout)
              => InOrder(c)

C13_Witness ==
    \E k \in DOMAIN coords :
        LET c == coords[k]
        IN /\ c.drain = "true"
           /\ c.drainEndAt - c.sigAt + PostWait(variant) < c.timeout
           /\ c.invoked = <<1, 2>>
           /\ c.drainEndAt > c.sigAt
           /\ Pos(c, "all-executed") > 0
           /\ Pos(c, "all-executed") < Pos(c, "finally")
           /\ Pos(c, "finally") < Pos(c, "exit")

\* the log lines about handler i
LinesOf(c, i) == {j \in DOMAIN c.log : c.log[j].h = i}

\* C14: every handler called by a drain and settled has exactly one log line,
\* of error level if it threw or rejected and of info level otherwise, with
\* the name it was registered under, or "Anonymous".
C14_OneLogLinePerHandler ==
    \A k \in DOMAIN coords :
        LET c == coords[k]
        IN \A i \in Range(c.settled) :
              /\ Cardinality(LinesOf(c, i)) = 1
              /\ \A j \in LinesOf(c, i) :
                    /\ c.log[j].level =
                          (IF registry[i].kind = "ok" THEN "info" ELSE "error")
                    /\ c.log[j].name = NameOf(registry[i])

\* C15: a coordinator subscribes to the signals in one way only.  With a
\* server the constructor has called the adapter once, for SIGINT and
\* SIGTERM, with shutdownFunction as onShutdown and the finalizer as finally,
\* and has no listener of its own, so that no signal ever runs its callback;
\* without a server it has its own listener and has not called the adapter.
C15_OneSubscription ==
    \A k \in DOMAIN coords :
        LET c == coords[k]
        IN /\ c.listener # (Len(c.gs) > 0)
           /\ c.server
                 => /\ Len(c.gs) = 1
                    /\ c.gs[1].signals = {"SIGINT", "SIGTERM"}
                    /\ c.gs[1].onShutdown = "shutdownFunction"
                    /\ c.gs[1].finally = "finally"
                    /\ ~c.listener
                    /\ ~c.called /\ c.started = 0 /\ c.timeoutAt = None
           /\ ~c.server => c.listener /\ c.gs = <<>>

C15_Witness ==
    \E k \in DOMAIN coords :
        /\ coords[k].server
        /\ Len(coords[k].gs) = 1
        /\ sigCount = 2
        /\ coords[k].started = 0
        /\ proc = "running"

\* the phases of the signal callback, in their order: idle, the race
\* (draining and running handlers), the grace delay after the finalizer,
\* the exit; a rejected callback stays in the phase it was rejected in
Phase(c) ==
    IF c.cb = "idle" THEN 0
    ELSE IF c.cb = "race" THEN 1
    ELSE IF c.cb = "grace" THEN 2
    ELSE IF c.cb = "exit" THEN 3
    ELSE IF c.finalCalls > 0 THEN 2 ELSE 1

\* a step of a coordinator from c to d keeps the order of the phases: never
\* back, nothing after the exit, the finalizer once at most, after the race
\* was resolved and before the exit
ForwardStep(c, d) ==
    /\ Phase(d) >= Phase(c)
    /\ c.cb = "exit" => d = c
    /\ d.finalCalls <= 1
    /\ d.finalCalls > 0 => d.raceBy \in {"timer", "shutdown"}
    /\ (Sequenced(d) /\ d.cb = "exit")
          => /\ Pos(d, "finally") > 0
             /\ Pos(d, "finally") < Pos(d, "exit")

\* C16: the phase of a coordinator never goes back and nothing happens after
\* the exit; every non-development sequence whose race is over has called the
\* finalizer exactly once, after the race was resolved by the timer or by
\* shutdownFunction, and before the exit.
C16_ForwardOnly ==
    [][\A k \in DOMAIN coords :
          /\ ForwardStep(coords[k], coords'[k])
          /\ (Sequenced(coords'[k]) /\ coords'[k].cb # "race")
                => coords'[k].finalCalls = 1]_vars

\* C17: the registry is append-only.  A step that changes it adds one entry
\* at the end, keeps every entry it had in place, and is a registration: it
\* changes nothing else; a step that changes a coordinator, the clock or the
\* process leaves the registry as it is.
C17_AppendOnly ==
    [][/\ registry' # registry
             => /\ Len(registry') = Len(registry) + 1
                /\ SubSeq(registry', 1, Len(registry)) = registry
                /\ registry'[Len(registry')] \in Handlers
                /\ UNCHANGED <<coords, now, proc, sigCount>>
       /\ ~ UNCHANGED <<coords, now, proc, sigCount>>
             => registry' = registry]_vars

C17_Witness ==
    /\ Len(registry) = 2
    /\ registry[1] = registry[2]
    /\ \E k \in DOMAIN coords :
          /\ coords[k].drain = "true"
          /\ coords[k].invoked = <<1, 2>>
          /\ coords[k].finalCalls = 1
          /\ coords[k].timerDone

\* with the development flag of the API configuration set, or without an
\* apiUrl, no shutdown report and no health report is issued
Suppressed ==
    (api.development \/ ~api.apiUrl)
        => /\ health.posts = 0
           /\ \A k \in DOMAIN coords :
                 coords[k].reports = 0 /\ coords[k].report = "none"

\* the mode of coordinator c is what its own configuration says, and its
\* signal callback has run the sequence unless that configuration asked for
\* development mode
OwnMode(c) ==
    /\ c.development = (c.cfgDev = "true")
    /\ (c.started > 0 /\ c.cfgDev # "true") => c.drains = 1
    /\ (c.cb = "exit" /\ c.cfgDev # "true") => c.finalCalls = 1

\* C18 as stated: the development flag of the API configuration (or a missing
\* apiUrl) suppresses the shutdown report and the health report, and the
\* handlers, the finalizer and the exit of a sequence do not depend on it.
C18_SuppressedOriginal ==
    /\ Suppressed
    /\ \A k \in DOMAIN coords : OwnMode(coords[k])

\* C18, amended: the flag (or a missing apiUrl) suppresses both reports; the
\* handlers, the finalizer and the exit do not depend on it when the
\* coordinator's own configuration gives development, and when it does not,
\* part_002 takes the flag as the coordinator's development mode.
C18_Suppressed ==
    /\ Suppressed
    /\ \A k \in DOMAIN coords :
          LET c == coords[k]
          IN /\ c.cfgDev # "unset" => OwnMode(c)
             /\ (c.cfgDev = "unset" /\ variant = "v2")
                   => c.development = api.development
             /\ (c.cfgDev = "unset" /\ variant = "v1") => ~c.development

C18_Witness ==
    /\ api.development /\ api.apiUrl
    /\ variant = "v2"
    /\ health.state = "scheduled" /\ health.jobs > 0 /\ health.posts = 0
    /\ \E k \in DOMAIN coords :
          LET c == coords[k]
          IN /\ c.cfgDev = "false"
             /\ c.invoked = <<1, 2>>
             /\ c.finalCalls = 1
             /\ c.cb = "exit"
             /\ c.reports = 0

\* the handler loop of c: where it stands and what it has called and logged
LoopView(c) ==
    <<c.drain, c.idx, c.awaiting, c.inflight, c.invoked, c.settled,
      SelectSeq(c.log, LAMBDA l : l.h # 0)>>

\* c as it would be with its race still undecided and its timer not fired
Unraced(c) ==
    [c EXCEPT !.cb = "race", !.timerDone = FALSE, !.raceBy = "none",
              !.graceAt = None]

\* C19: the timeout does not stop the handler loop.  After the timer has won
\* the race, a drain that is not over is still suspended on the handler in
\* flight with the next handler as its next position, and when that handler
\* settles the loop does exactly what it would do had the timer not fired:
\* it logs the outcome and calls the handlers that follow, in order.
C19_TimeoutAdvisory ==
    \A k \in DOMAIN coords :
        LET c == coords[k]
        IN c.raceBy = "timer"
              => /\ c.invoked = [j \in 1..Len(c.invoked) |-> j]
                 /\ c.drain = "running"
                       => /\ c.awaiting # 0
                          /\ \E p \in c.inflight : p[1] = c.awaiting
                          /\ c.idx = c.awaiting + 1
                 /\ \A p \in c.inflight :
                       LoopView(Micro(Settle(c, p[1])))
                          = LoopView(Micro(Settle(Unraced(c), p[1])))

\* a handler not yet started when the timer won is called after the finalizer
C19_Witness ==
    \E k \in DOMAIN coords :
        LET c == coords[k]
        IN /\ c.raceBy = "timer"
           /\ c.finalCalls = 1
           /\ c.inflightAtFinal # {}
           /\ \A p \in c.inflightAtFinal : p[1] = 1
           /\ c.invoked = <<1, 2>>
           /\ \E j \in DOMAIN c.events :
                 c.events[j] = "call" /\ j > Pos(c, "finally")
           /\ proc = "running"

\* C20: a registration during a drain extends the sequence that the drain
\* iterates.  The handlers are called in registration order; a registration
\* made while the loop is running lands ahead of the loop's position and
\* leaves the loop running; a loop that has ended has called every handler
\* registered before its end, those registered since the signal included, and
\* calls nothing more, whatever is registered later.
C20_RegisterDuringDrain ==
    [][\A k \in DOMAIN coords :
          LET c == coords[k]
              d == coords'[k]
          IN /\ d.invoked = [j \in 1..Len(d.invoked) |-> j]
             /\ (registry' # registry /\ c.drain = "running")
                   => /\ d.drain = "running"
                      /\ d.idx <= Len(registry')
                      /\ Len(registry') \notin Range(d.invoked)
             /\ d.drain = "true"
                   => /\ d.lenAtStart <= d.drainLen
                      /\ d.drainLen <= Len(registry')
                      /\ Len(d.invoked) = d.drainLen
             /\ c.drain = "true"
                   => /\ d.invoked = c.invoked
                      /\ d.drain = "true" /\ d.drainLen = c.drainLen]_vars

\* a handler registered during the drain has been called by it
C20_Witness ==
    \E k \in DOMAIN coords :
        LET c == coords[k]
        IN /\ c.drain = "true"
           /\ c.lenAtStart = 1
           /\ c.drainLen = 2
           /\ c.invoked = <<1, 2>>
           /\ c.settled = <<1, 2>>

\* c as it would be had config.forceExit been given as f
WithForceExit(c, f) == [c EXCEPT !.cfgForceExit = f]

\* C21: config.forceExit reaches the server adapter and nothing else.  With a
\* server the adapter gets config.forceExit when it is given, an explicit
\* false included, and true when it is not.  Without a server nothing is
\* handed to the adapter and no step of the coordinator depends on the value:
\* the signal callback, the settling of a handler and the continuations do
\* the same for true, false and unset, and after the finalizer the timer that
\* leads to process.exit() is set, the exit following in the step that fires
\* it.
C21_ForceExitAdapterOnly ==
    \A k \in DOMAIN coords :
        LET c == coords[k]
        IN /\ c.server
                 => /\ Len(c.gs) = 1
                    /\ c.gs[1].forceExit = (c.cfgForceExit # "false")
           /\ ~c.server
                 => /\ c.gs = <<>>
                    /\ c.cb = "grace"
                          => c.graceAt = c.finalAt + Grace(variant)
                    /\ c.cb = "exit" => proc = "exited"
                    /\ \A f \in ForceExitVals :
                          /\ Micro(WithForceExit(c, f))
                                = WithForceExit(Micro(c), f)
                          /\ \A sig \in Signals :
                                Micro(CallOnce(WithForceExit(c, f), sig))
                                   = WithForceExit(Micro(CallOnce(c, sig)), f)
                          /\ \A p \in c.inflight :
                                Micro(Settle(WithForceExit(c, f), p[1]))
                                   = WithForceExit(Micro(Settle(c, p[1])), f)

\* a sequence without server, configured with forceExit: false, has exited
C21_Witness ==
    \E k \in DOMAIN coords :
        LET c == coords[k]
        IN /\ ~c.server
           /\ c.cfgForceExit = "false"
           /\ c.invoked = <<1, 2>>
           /\ c.finalCalls = 1
           /\ c.cb = "exit"
           /\ proc = "exited"

====
